---- MODULE Spec2Model ----
(***************************************************************************)
(* A model of task_manager.py: a command-line task tracker that keeps its  *)
(* users in user.txt and its tasks in tasks.txt, both semicolon-delimited  *)
(* text files.  Text is modelled as TLA+ strings and the files as the      *)
(* sequence of their lines, so that writing and parsing are the character  *)
(* level operations of the program (join on ";", split on ";", strftime,   *)
(* strptime, str, int, lower) and not identities.                          *)
(***************************************************************************)
EXTENDS Integers, Sequences, FiniteSets, TLC

\* ------------------------------------------------------------------ bounds
MaxTasks == 2
MaxDay == 2
MaxCount == 50
MaxStored == 3

\* ------------------------------------------------- operator input alphabet
Names == {"admin", "bob"}
Passwords == {"password", "pw"}
NewPasswords == {"pw"}
Titles == {"t"}
Descriptions == {"d"}
Confirmations == {"Yes", "yes", "no"}
EditOptions == {"u", "d", "C", "e", "z"}
Commands == {"gr", "ds", "q"}

\* ------------------------------------------------------------ text helpers
Digits == "0123456789"

DigitVal ==
    ("0" :> 0) @@ ("1" :> 1) @@ ("2" :> 2) @@ ("3" :> 3) @@ ("4" :> 4) @@
    ("5" :> 5) @@ ("6" :> 6) @@ ("7" :> 7) @@ ("8" :> 8) @@ ("9" :> 9)

LowerOf ==
    ("A" :> "a") @@ ("B" :> "b") @@ ("C" :> "c") @@ ("D" :> "d") @@ ("E" :> "e") @@
    ("F" :> "f") @@ ("G" :> "g") @@ ("H" :> "h") @@ ("I" :> "i") @@ ("J" :> "j") @@
    ("K" :> "k") @@ ("L" :> "l") @@ ("M" :> "m") @@ ("N" :> "n") @@ ("O" :> "o") @@
    ("P" :> "p") @@ ("Q" :> "q") @@ ("R" :> "r") @@ ("S" :> "s") @@ ("T" :> "t") @@
    ("U" :> "u") @@ ("V" :> "v") @@ ("W" :> "w") @@ ("X" :> "x") @@ ("Y" :> "y") @@
    ("Z" :> "z")

CharAt(s, i) == SubSeq(s, i, i)

IsDigit(c) == c \in DOMAIN DigitVal

AllDigits(s) == Len(s) > 0 /\ \A i \in 1..Len(s) : IsDigit(CharAt(s, i))

RECURSIVE DecVal(_)
DecVal(s) ==
    IF s = "" THEN 0
    ELSE 10 * DecVal(SubSeq(s, 1, Len(s) - 1)) + DigitVal[CharAt(s, Len(s))]

\* str(i) for a non-negative integer
RECURSIVE str(_)
str(i) ==
    IF i < 10 THEN CharAt(Digits, i + 1)
    ELSE str(i \div 10) \o CharAt(Digits, (i % 10) + 1)

\* zero padding of strftime's %d, %m and %Y fields
RECURSIVE Pad(_, _)
Pad(s, width) == IF Len(s) >= width THEN s ELSE Pad("0" \o s, width)

\* str.lower()
LowerChar(c) == IF c \in DOMAIN LowerOf THEN LowerOf[c] ELSE c

RECURSIVE lower(_)
lower(s) ==
    IF s = "" THEN ""
    ELSE LowerChar(CharAt(s, 1)) \o lower(SubSeq(s, 2, Len(s)))

\* str.split(sep) for a one-character separator
\* (the field that starts at position from ends before the next separator)
RECURSIVE SplitFrom(_, _, _, _)
SplitFrom(s, sep, from, i) ==
    IF i > Len(s) THEN <<SubSeq(s, from, Len(s))>>
    ELSE IF CharAt(s, i) = sep
         THEN <<SubSeq(s, from, i - 1)>> \o SplitFrom(s, sep, i + 1, i + 1)
         ELSE SplitFrom(s, sep, from, i + 1)

split(s, sep) == SplitFrom(s, sep, 1, 1)

\* sep.join(parts)
RECURSIVE join(_, _)
join(parts, sep) ==
    IF Len(parts) = 0 THEN ""
    ELSE IF Len(parts) = 1 THEN parts[1]
    ELSE parts[1] \o sep \o join(Tail(parts), sep)

\* int(s): [ok, v]; not ok is Python's ValueError
int(s) ==
    LET body == IF Len(s) > 0 /\ CharAt(s, 1) \in {"-", "+"}
                THEN SubSeq(s, 2, Len(s)) ELSE s
        neg == Len(s) > 0 /\ CharAt(s, 1) = "-"
    IN  IF AllDigits(body)
        THEN [ok |-> TRUE, v |-> IF neg THEN 0 - DecVal(body) ELSE DecVal(body)]
        ELSE [ok |-> FALSE, v |-> 0]

\* ------------------------------------------------------------------- dates
\* A datetime at midnight (or a date) is [y, m, d]; NoDate stands for the
\* ValueError of strptime (year 0 is not a Python date).
NoDate == [y |-> 0, m |-> 0, d |-> 0]

IsLeap(y) == (y % 4 = 0 /\ y % 100 # 0) \/ y % 400 = 0

DaysInMonth(y, m) ==
    IF m = 2 THEN (IF IsLeap(y) THEN 29 ELSE 28)
    ELSE IF m \in {4, 6, 9, 11} THEN 30 ELSE 31

\* datetime comparison a < b and a <= b
DateLT(a, b) ==
    \/ a.y < b.y
    \/ a.y = b.y /\ a.m < b.m
    \/ a.y = b.y /\ a.m = b.m /\ a.d < b.d

DateLE(a, b) == a = b \/ DateLT(a, b)

\* strftime("%d-%m-%Y")
strftime(dt) ==
    Pad(str(dt.d), 2) \o "-" \o Pad(str(dt.m), 2) \o "-" \o Pad(str(dt.y), 4)

\* datetime.strptime(s, "%d-%m-%Y")
StrpParts(p) ==
        IF /\ Len(p) = 3
           /\ AllDigits(p[1]) /\ Len(p[1]) <= 2
           /\ AllDigits(p[2]) /\ Len(p[2]) <= 2
           /\ AllDigits(p[3]) /\ Len(p[3]) = 4
        THEN LET d == DecVal(p[1])
                 m == DecVal(p[2])
                 y == DecVal(p[3])
             IN  IF /\ y >= 1
                    /\ m \in 1..12
                    /\ d >= 1
                    /\ d <= DaysInMonth(y, m)
                 THEN [y |-> y, m |-> m, d |-> d]
                 ELSE NoDate
        ELSE NoDate

strptime(s) == StrpParts(split(s, "-"))

\* The calendar day the clock shows when it reads n: day 1 is 30-12-2029,
\* so that the days of the model straddle a month and a year boundary.
NextDay(dt) ==
    IF dt.d < DaysInMonth(dt.y, dt.m) THEN [dt EXCEPT !.d = dt.d + 1]
    ELSE IF dt.m < 12 THEN [y |-> dt.y, m |-> dt.m + 1, d |-> 1]
    ELSE [y |-> dt.y + 1, m |-> 1, d |-> 1]

RECURSIVE today(_)
today(n) == IF n <= 1 THEN [y |-> 2029, m |-> 12, d |-> 30] ELSE NextDay(today(n - 1))

\* what the operator may type at the due date prompt: the days the clock
\* reaches after the first, the day after them typed without padding, and
\* a string that is no date
Unpadded(dt) == str(dt.d) \o "-" \o str(dt.m) \o "-" \o str(dt.y)

DateInputs ==
    {strftime(today(n)) : n \in 2..MaxDay} \cup {Unpadded(today(MaxDay + 1)), "31-02-2030"}

\* ------------------------------------------------------------- user.txt
\* str.strip() of blanks
RECURSIVE lstrip(_)
lstrip(s) == IF s # "" /\ CharAt(s, 1) = " " THEN lstrip(SubSeq(s, 2, Len(s))) ELSE s

RECURSIVE rstrip(_)
rstrip(s) ==
    IF s # "" /\ CharAt(s, Len(s)) = " " THEN rstrip(SubSeq(s, 1, Len(s) - 1)) ELSE s

strip(s) == lstrip(rstrip(s))

\* A dict is the sequence of its items [k, v] in insertion order.
Keys(dict) == {dict[i].k : i \in 1..Len(dict)}

Get(dict, key) == dict[CHOOSE i \in 1..Len(dict) : dict[i].k = key].v

Put(dict, key, val) ==
    IF key \in Keys(dict)
    THEN [i \in 1..Len(dict) |->
            IF dict[i].k = key THEN [k |-> key, v |-> val] ELSE dict[i]]
    ELSE Append(dict, [k |-> key, v |-> val])

\* read_users_file: [err, dict]; err is "" or the exception raised by the
\* unpacking of a line that does not split into two fields
RECURSIVE ReadUsersFrom(_, _)
ReadUsersFrom(lines, dict) ==
    IF Len(lines) = 0 THEN [err |-> "", dict |-> dict]
    ELSE LET parts == split(strip(Head(lines)), ";")
         IN  IF Len(parts) # 2 THEN [err |-> "ValueError", dict |-> <<>>]
             ELSE ReadUsersFrom(Tail(lines), Put(dict, parts[1], parts[2]))

read_users_file(file) == ReadUsersFrom(file, <<>>)

\* add_new_user_to_user_file: the lines of the file it writes
add_new_user_to_user_file(dict) ==
    [i \in 1..Len(dict) |-> dict[i].k \o ";" \o dict[i].v]

\* ------------------------------------------------------------ tasks.txt
\* read_tasks_file: the fields of every non-empty line
RECURSIVE read_tasks_file(_)
read_tasks_file(file) ==
    IF Len(file) = 0 THEN <<>>
    ELSE IF Head(file) = "" THEN read_tasks_file(Tail(file))
    ELSE <<split(Head(file), ";")>> \o read_tasks_file(Tail(file))

\* create_task_list: [err, list]; err is "" or the exception raised by a
\* line with fewer than seven fields or with a field that is not a date
RECURSIVE CreateTasksFrom(_, _)
CreateTasksFrom(task_data, i) ==
    IF i > Len(task_data) THEN [err |-> "", list |-> <<>>]
    ELSE LET c == task_data[i]
         IN  IF Len(c) < 5 THEN [err |-> "IndexError", list |-> <<>>]
             ELSE IF strptime(c[5]) = NoDate THEN [err |-> "ValueError", list |-> <<>>]
             ELSE IF Len(c) < 6 THEN [err |-> "IndexError", list |-> <<>>]
             ELSE IF strptime(c[6]) = NoDate THEN [err |-> "ValueError", list |-> <<>>]
             ELSE IF Len(c) < 7 THEN [err |-> "IndexError", list |-> <<>>]
             ELSE LET rest == CreateTasksFrom(task_data, i + 1)
                      curr_t == [number |-> i,
                                 username |-> c[2],
                                 title |-> c[3],
                                 description |-> c[4],
                                 due_date |-> strptime(c[5]),
                                 assigned_date |-> strptime(c[6]),
                                 completed |-> (c[7] = "Yes")]
                  IN  IF rest.err # "" THEN rest
                      ELSE [err |-> "", list |-> <<curr_t>> \o rest.list]

create_task_list(task_data) == CreateTasksFrom(task_data, 1)

\* the line of one task, as both writers format it
TaskLine(index, task) ==
    join(<<str(index), task.username, task.title, task.description,
           strftime(task.due_date), strftime(task.assigned_date),
           IF task.completed THEN "Yes" ELSE "No">>, ";")

\* add_new_task_to_task_list
add_new_task_to_task_list(list, task_username, task_title, task_description, due_date_time, curr_date) ==
    Append(list, [number |-> Len(list) + 1,
                  username |-> task_username,
                  title |-> task_title,
                  description |-> task_description,
                  due_date |-> due_date_time,
                  assigned_date |-> curr_date,
                  completed |-> FALSE])

\* write_new_task_to_tasks_file: the lines of the file it writes
write_new_task_to_tasks_file(list) ==
    [i \in 1..Len(list) |-> TaskLine(i, list[i])]

\* ----------------------------------------------------------- the prompts
\* validate_data_entry: the first entry if it is not empty, else the entry
\* given at the re-prompt (which is not empty)
validate_data_entry(data, again) == IF data # "" THEN data ELSE again

\* validate_if_username_registered: the first name if it is registered,
\* else the registered name given at the re-prompt
validate_if_username_registered(task_username, again, dict) ==
    IF task_username \in Keys(dict) THEN task_username ELSE again

\* validate_due_date_input: the first entry that strptime accepts
validate_due_date_input(entry, again) ==
    IF strptime(entry) # NoDate THEN strptime(entry) ELSE strptime(again)

ValidDateInputs == {s \in DateInputs : strptime(s) # NoDate}

\* what the operator may type when asked for a task number
Selectors == {str(i) : i \in 1..MaxTasks} \cup {"x", "-1"}

\* ------------------------------------------------------------ view and edit
\* (as MyTasksFrom, but the tasks of every user are kept)
RECURSIVE MyTasksOfAll(_, _, _)
MyTasksOfAll(list, user, i) ==
    IF i > Len(list) THEN <<>>
    ELSE <<[number |-> list[i].number,
            username |-> list[i].username,
            title |-> list[i].title,
            description |-> list[i].description,
            due_date |-> list[i].due_date,
            assigned_date |-> list[i].assigned_date,
            completed |-> list[i].completed,
            task_number |-> i]>> \o MyTasksOfAll(list, user, i + 1)

\* view_my_tasks_option: the tasks of the file that are assigned to the user,
\* each with the task_number the loop gives it
RECURSIVE MyTasksFrom(_, _, _)
MyTasksFrom(list, user, i) ==
    IF i > Len(list) THEN <<>>
    ELSE IF list[i].username = user
         THEN <<[number |-> list[i].number,
                 username |-> list[i].username,
                 title |-> list[i].title,
                 description |-> list[i].description,
                 due_date |-> list[i].due_date,
                 assigned_date |-> list[i].assigned_date,
                 completed |-> list[i].completed,
                 task_number |-> i]>> \o MyTasksFrom(list, user, i + 1)
         ELSE MyTasksFrom(list, user, i + 1)

view_my_tasks_option(user, file) ==
    LET tasks == create_task_list(read_tasks_file(file))
    IN  IF tasks.err # "" THEN tasks
        ELSE [err |-> "", list |-> MyTasksFrom(tasks.list, user, 1)]

\* (as Editable, but the due date is not looked at)
EditableAnyDate(task, current_date) == task.completed = FALSE

\* edit_task_details: the condition under which the edit menu is offered
Editable(task, current_date) ==
    task.completed = FALSE /\ DateLT(current_date, task.due_date)

\* update_tasks_file: the first line whose leading field is the number of
\* the task is replaced by the line of the task, the others are kept
RECURSIVE Before(_, _, _)
Before(s, sep, i) ==
    IF i > Len(s) \/ CharAt(s, i) = sep THEN SubSeq(s, 1, i - 1)
    ELSE Before(s, sep, i + 1)

FirstField(line) == strip(Before(line, ";", 1))

\* (as update_tasks_file, but only the line of the task is written back)
update_tasks_file_only(specific_task, lines) ==
    <<TaskLine(specific_task.number, specific_task)>>

\* (as update_tasks_file, but the leading field is not compared: the first
\* line of the file is the one replaced)
update_tasks_file_first(specific_task, lines) ==
    IF Len(lines) = 0 THEN lines
    ELSE [lines EXCEPT ![1] = TaskLine(specific_task.number, specific_task)]

update_tasks_file(specific_task, lines) ==
    LET hits == {i \in 1..Len(lines) : FirstField(lines[i]) = str(specific_task.number)}
    IN  IF hits = {} THEN lines
        ELSE LET first == CHOOSE i \in hits : \A j \in hits : i <= j
             IN  [lines EXCEPT ![first] = TaskLine(specific_task.number, specific_task)]

\* ------------------------------------------------------------- statistics
\* the value of an expression, computed once: the element of {expression}
The(S) == CHOOSE x \in S : TRUE

\* int((count / total) * 100) if total > 0 else 0, in the arithmetic of the
\* program: count / total is the binary64 quotient (53 significant bits,
\* rounded to nearest, ties to even), the product with 100 is rounded in the
\* same way and int() drops the fraction.  A significand is held as five
\* digits of 13 bits, the least significant first and the last one as large
\* as it needs to be, so that every intermediate number stays small.
Digit == 8192

\* the least s with count * 2^s >= total, for count > 0
RECURSIVE Exponent(_, _)
Exponent(count, total) == IF count >= total THEN 0 ELSE 1 + Exponent(2 * count, total)

\* long division: the next n digits of r / total, the most significant
\* first, and then the remainder
RECURSIVE Divide(_, _, _)
Divide(r, total, n) ==
    IF n = 0 THEN <<r>>
    ELSE <<(r * Digit) \div total>> \o Divide((r * Digit) % total, total, n - 1)

\* the digits of a number once every carry went to the next digit
RECURSIVE Carry(_, _)
Carry(digits, carry) ==
    IF Len(digits) = 1 THEN <<digits[1] + carry>>
    ELSE <<(digits[1] + carry) % Digit>>
             \o Carry(Tail(digits), (digits[1] + carry) \div Digit)

\* scaled / total with 1 <= scaled / total < 2, rounded to 53 bits: the
\* significand, in units of 2^-52
Quotient(scaled, total) ==
    The({Carry(<<q[4] + (IF 2 * q[5] > total \/ (2 * q[5] = total /\ q[4] % 2 = 1)
                         THEN 1 ELSE 0),
                 q[3], q[2], q[1], scaled \div total>>, 0) :
            q \in {Divide(scaled % total, total, 4)}})

\* 100 times a significand, exactly
Product(significand) ==
    The({Carry([i \in 1..Len(m) |-> m[i] * 100], 0) : m \in {significand}})

\* a product rounded to 53 bits (its 6 or 7 lowest bits go) and then cut to
\* its whole multiples of 2^52
Whole(product) ==
    The({LET drop == IF p[5] < 128 THEN 6 ELSE 7
             low == p[1] % (2 ^ drop)
             odd == (p[1] \div (2 ^ drop)) % 2 = 1
             round == IF low > 2 ^ (drop - 1) \/ (low = 2 ^ (drop - 1) /\ odd)
                      THEN 2 ^ drop ELSE 0
         IN  Carry(<<p[1] - low + round, p[2], p[3], p[4], p[5]>>, 0)[5] :
            p \in {product}})

percentage(count, total) ==
    IF total <= 0 \/ count <= 0 THEN 0
    ELSE The({Whole(Product(Quotient(count * (2 ^ s), total))) \div (2 ^ s) :
                 s \in {Exponent(count, total)}})

\* the four counters a user starts with
NoTasks ==
    [total_tasks_assigned |-> 0,
     total_tasks_completed |-> 0,
     total_tasks_uncompleted |-> 0,
     total_tasks_uncompleted_overdue |-> 0]

\* user_stats before the tasks are read: every key of the dict, in its order
user_stats_of(dict) == [i \in 1..Len(dict) |-> [k |-> dict[i].k, v |-> NoTasks]]

\* the counters before the tasks are read
NoCount(dict) ==
    [err |-> "",
     total_tasks |-> 0,
     total_tasks_completed |-> 0,
     total_tasks_uncompleted |-> 0,
     total_tasks_uncompleted_overdue |-> 0,
     user_stats |-> user_stats_of(dict)]

\* the exception, if any, that building curr_t from the fields of one line
\* raises, in the order the fields are read
FieldsError(c) ==
    IF Len(c) < 5 THEN "IndexError"
    ELSE IF strptime(c[5]) = NoDate THEN "ValueError"
    ELSE IF Len(c) < 6 THEN "IndexError"
    ELSE IF strptime(c[6]) = NoDate THEN "ValueError"
    ELSE IF Len(c) < 7 THEN "IndexError"
    ELSE ""

\* (as ReportCount, but a task due on the current day is not counted as overdue)
ReportCountStrict(count, c, current_date) ==
    IF c[2] \notin Keys(count.user_stats) THEN [count EXCEPT !.err = "KeyError"]
    ELSE LET completed == c[7] = "Yes"
             overdue == ~completed /\ DateLT(strptime(c[5]), current_date)
             stats == Get(count.user_stats, c[2])
         IN  [err |-> "",
              total_tasks |-> count.total_tasks + 1,
              total_tasks_completed |->
                  count.total_tasks_completed + (IF completed THEN 1 ELSE 0),
              total_tasks_uncompleted |->
                  count.total_tasks_uncompleted + (IF completed THEN 0 ELSE 1),
              total_tasks_uncompleted_overdue |->
                  count.total_tasks_uncompleted_overdue + (IF overdue THEN 1 ELSE 0),
              user_stats |->
                  Put(count.user_stats, c[2],
                      [total_tasks_assigned |-> stats.total_tasks_assigned + 1,
                       total_tasks_completed |->
                           stats.total_tasks_completed + (IF completed THEN 1 ELSE 0),
                       total_tasks_uncompleted |->
                           stats.total_tasks_uncompleted + (IF completed THEN 0 ELSE 1),
                       total_tasks_uncompleted_overdue |->
                           stats.total_tasks_uncompleted_overdue
                               + (IF overdue THEN 1 ELSE 0)])]

\* generate_reports_option, one turn of the loop over the tasks: the counters
\* after the task with fields c was counted
ReportCount(count, c, current_date) ==
    IF c[2] \notin Keys(count.user_stats) THEN [count EXCEPT !.err = "KeyError"]
    ELSE LET completed == c[7] = "Yes"
             overdue == ~completed /\ DateLE(strptime(c[5]), current_date)
             stats == Get(count.user_stats, c[2])
         IN  [err |-> "",
              total_tasks |-> count.total_tasks + 1,
              total_tasks_completed |->
                  count.total_tasks_completed + (IF completed THEN 1 ELSE 0),
              total_tasks_uncompleted |->
                  count.total_tasks_uncompleted + (IF completed THEN 0 ELSE 1),
              total_tasks_uncompleted_overdue |->
                  count.total_tasks_uncompleted_overdue + (IF overdue THEN 1 ELSE 0),
              user_stats |->
                  Put(count.user_stats, c[2],
                      [total_tasks_assigned |-> stats.total_tasks_assigned + 1,
                       total_tasks_completed |->
                           stats.total_tasks_completed + (IF completed THEN 1 ELSE 0),
                       total_tasks_uncompleted |->
                           stats.total_tasks_uncompleted + (IF completed THEN 0 ELSE 1),
                       total_tasks_uncompleted_overdue |->
                           stats.total_tasks_uncompleted_overdue
                               + (IF overdue THEN 1 ELSE 0)])]

\* generate_reports_option, the loop over the tasks
RECURSIVE ReportLoop(_, _, _, _)
ReportLoop(task_data, i, current_date, count) ==
    IF i > Len(task_data) THEN count
    ELSE IF FieldsError(task_data[i]) # ""
         THEN [count EXCEPT !.err = FieldsError(task_data[i])]
    ELSE The({IF counted.err # "" THEN counted
              ELSE ReportLoop(task_data, i + 1, current_date, counted) :
                  counted \in {ReportCount(count, task_data[i], current_date)}})

\* generate_reports_option: the figures written to task_overview.txt and
\* user_overview.txt, from the counters
ReportFigures(count, dict) ==
    [total_tasks |-> count.total_tasks,
     total_tasks_completed |-> count.total_tasks_completed,
     total_tasks_uncompleted |-> count.total_tasks_uncompleted,
     percentage_tasks_uncompleted |->
         percentage(count.total_tasks_uncompleted, count.total_tasks),
     total_tasks_uncompleted_overdue |-> count.total_tasks_uncompleted_overdue,
     percentage_tasks_overdue |->
         percentage(count.total_tasks_uncompleted_overdue, count.total_tasks),
     total_users |-> Len(dict),
     users |->
         [i \in 1..Len(count.user_stats) |->
             LET stats == count.user_stats[i].v
             IN  [username |-> count.user_stats[i].k,
                  total_assigned |-> stats.total_tasks_assigned,
                  percentage_assigned |->
                      percentage(stats.total_tasks_assigned, count.total_tasks),
                  total_completed |-> stats.total_tasks_completed,
                  percentage_assigned_completed |->
                      percentage(stats.total_tasks_completed, stats.total_tasks_assigned),
                  total_uncompleted |-> stats.total_tasks_uncompleted,
                  percentage_assigned_uncompleted |->
                      percentage(stats.total_tasks_uncompleted, stats.total_tasks_assigned),
                  total_uncompleted_overdue |-> stats.total_tasks_uncompleted_overdue,
                  percentage_assigned_uncompleted_overdue |->
                      percentage(stats.total_tasks_uncompleted_overdue,
                                 stats.total_tasks_assigned)]]]

\* generate_reports_option: [err, figures]; figures holds what is written to the two report files, or
\* nothing when an exception ended the function before
generate_reports_option(users_lines, tasks_lines, day) ==
    The({IF users.err # "" THEN [err |-> users.err, figures |-> <<>>]
         ELSE The({IF count.err # "" THEN [err |-> count.err, figures |-> <<>>]
                   ELSE [err |-> "", figures |-> <<ReportFigures(count, users.dict)>>] :
                       count \in {ReportLoop(task_data, 1, today(day), NoCount(users.dict))}}) :
             users \in {read_users_file(users_lines)},
             task_data \in {read_tasks_file(tasks_lines)}})

\* (as StatsCount, but a task due on the current day is not counted as overdue)
StatsCountStrict(count, c, current_date) ==
    IF c[2] \notin Keys(count.user_stats) THEN [count EXCEPT !.err = "KeyError"]
    ELSE LET completed == c[7] = "Yes"
             overdue == ~completed /\ DateLT(strptime(c[5]), current_date)
             stats == Get(count.user_stats, c[2])
         IN  [err |-> "",
              total_tasks |-> count.total_tasks + 1,
              total_tasks_completed |->
                  count.total_tasks_completed + (IF completed THEN 1 ELSE 0),
              total_tasks_uncompleted |->
                  count.total_tasks_uncompleted + (IF completed THEN 0 ELSE 1),
              total_tasks_uncompleted_overdue |->
                  count.total_tasks_uncompleted_overdue + (IF overdue THEN 1 ELSE 0),
              user_stats |->
                  Put(count.user_stats, c[2],
                      [total_tasks_assigned |-> stats.total_tasks_assigned + 1,
                       total_tasks_completed |->
                           stats.total_tasks_completed + (IF completed THEN 1 ELSE 0),
                       total_tasks_uncompleted |->
                           stats.total_tasks_uncompleted + (IF completed THEN 0 ELSE 1),
                       total_tasks_uncompleted_overdue |->
                           stats.total_tasks_uncompleted_overdue
                               + (IF overdue THEN 1 ELSE 0)])]

\* display_stats_option, one turn of the loop over the tasks: the counters
\* after the task with fields c was counted
StatsCount(count, c, current_date) ==
    IF c[2] \notin Keys(count.user_stats) THEN [count EXCEPT !.err = "KeyError"]
    ELSE LET completed == c[7] = "Yes"
             overdue == ~completed /\ DateLE(strptime(c[5]), current_date)
             stats == Get(count.user_stats, c[2])
         IN  [err |-> "",
              total_tasks |-> count.total_tasks + 1,
              total_tasks_completed |->
                  count.total_tasks_completed + (IF completed THEN 1 ELSE 0),
              total_tasks_uncompleted |->
                  count.total_tasks_uncompleted + (IF completed THEN 0 ELSE 1),
              total_tasks_uncompleted_overdue |->
                  count.total_tasks_uncompleted_overdue + (IF overdue THEN 1 ELSE 0),
              user_stats |->
                  Put(count.user_stats, c[2],
                      [total_tasks_assigned |-> stats.total_tasks_assigned + 1,
                       total_tasks_completed |->
                           stats.total_tasks_completed + (IF completed THEN 1 ELSE 0),
                       total_tasks_uncompleted |->
                           stats.total_tasks_uncompleted + (IF completed THEN 0 ELSE 1),
                       total_tasks_uncompleted_overdue |->
                           stats.total_tasks_uncompleted_overdue
                               + (IF overdue THEN 1 ELSE 0)])]

\* display_stats_option, the loop over the tasks
RECURSIVE StatsLoop(_, _, _, _)
StatsLoop(task_data, i, current_date, count) ==
    IF i > Len(task_data) THEN count
    ELSE IF FieldsError(task_data[i]) # ""
         THEN [count EXCEPT !.err = FieldsError(task_data[i])]
    ELSE The({IF counted.err # "" THEN counted
              ELSE StatsLoop(task_data, i + 1, current_date, counted) :
                  counted \in {StatsCount(count, task_data[i], current_date)}})

\* display_stats_option: the figures printed, from the counters
StatsFigures(count, dict) ==
    [total_tasks |-> count.total_tasks,
     total_tasks_completed |-> count.total_tasks_completed,
     total_tasks_uncompleted |-> count.total_tasks_uncompleted,
     percentage_tasks_uncompleted |->
         percentage(count.total_tasks_uncompleted, count.total_tasks),
     total_tasks_uncompleted_overdue |-> count.total_tasks_uncompleted_overdue,
     percentage_tasks_overdue |->
         percentage(count.total_tasks_uncompleted_overdue, count.total_tasks),
     total_users |-> Len(dict),
     users |->
         [i \in 1..Len(count.user_stats) |->
             LET stats == count.user_stats[i].v
             IN  [username |-> count.user_stats[i].k,
                  total_assigned |-> stats.total_tasks_assigned,
                  percentage_assigned |->
                      percentage(stats.total_tasks_assigned, count.total_tasks),
                  total_completed |-> stats.total_tasks_completed,
                  percentage_assigned_completed |->
                      percentage(stats.total_tasks_completed, stats.total_tasks_assigned),
                  total_uncompleted |-> stats.total_tasks_uncompleted,
                  percentage_assigned_uncompleted |->
                      percentage(stats.total_tasks_uncompleted, stats.total_tasks_assigned),
                  total_uncompleted_overdue |-> stats.total_tasks_uncompleted_overdue,
                  percentage_assigned_uncompleted_overdue |->
                      percentage(stats.total_tasks_uncompleted_overdue,
                                 stats.total_tasks_assigned)]]]

\* display_stats_option: [err, figures]; figures holds what is printed, or
\* nothing when an exception ended the function before
display_stats_option(users_lines, tasks_lines, day) ==
    The({IF users.err # "" THEN [err |-> users.err, figures |-> <<>>]
         ELSE The({IF count.err # "" THEN [err |-> count.err, figures |-> <<>>]
                   ELSE [err |-> "", figures |-> <<StatsFigures(count, users.dict)>>] :
                       count \in {StatsLoop(task_data, 1, today(day), NoCount(users.dict))}}) :
             users \in {read_users_file(users_lines)},
             task_data \in {read_tasks_file(tasks_lines)}})


\* ------------------------------------------------------------------ state
VARIABLES
    pc,                 \* "login", "menu" (waiting at the menu prompt), "top" (an
                        \* option was handled), "done" (main returned), "crashed";
                        \* "call", "written", "return" for a function on its own
    now,                \* the day the system clock shows
    user_file,          \* the lines of user.txt
    tasks_file,         \* the lines of tasks.txt
    username_password,  \* main: the dict loaded at start
    task_list,          \* main: the task list loaded at start
    curr_user,          \* main
    curr_pass,          \* main
    edit_specific_task, \* main
    user_option,        \* main: the option of the pass, "" at the prompt
    my_task_list,       \* main: the list the pass got from option vm
    field_to_edit,      \* edit_task_details: the option chosen, "" if not asked
    new_completed,      \* edit_task_details: the confirmation, "" if not asked
    out,                \* what the pass printed
    screen,             \* the figures the pass printed with display_stats_option
    reports,            \* the figures the pass wrote to the two report files
    arg,                \* the argument of the function under study
    res                 \* its result

vars == <<pc, now, user_file, tasks_file, username_password, task_list, curr_user,
          curr_pass, edit_specific_task, user_option, my_task_list, field_to_edit,
          new_completed, out, screen, reports, arg, res>>

files == <<user_file, tasks_file>>
memory == <<username_password, task_list, curr_user, curr_pass, edit_specific_task>>
probe == <<arg, res>>

\* What one pass of the menu loop leaves to look at.  user_option and
\* my_task_list are overwritten before the program reads them again,
\* field_to_edit and new_completed are locals of edit_task_details, and the
\* report files are only ever written: the model keeps them for the pass
\* that set them and forgets them when the next option is asked for.
NoPrompt == field_to_edit' = "" /\ new_completed' = ""
NoStats == screen' = <<>> /\ reports' = <<>>
Forget == my_task_list' = <<>> /\ NoPrompt /\ NoStats

\* create_user_file_if_not_found, on a machine where user.txt is absent
DefaultUserFile == <<"admin;password">>

\* A prompt asks again only when the entry was not accepted: the entries the
\* operator may give at the re-prompt, none being asked for after a good entry
Reprompt(accepted, entry, entries) == IF accepted THEN {entry} ELSE entries

\* main, up to the login prompt: both files are loaded
Init ==
    /\ pc = "login"
    /\ now = 1
    /\ user_file = DefaultUserFile
    /\ tasks_file = <<>>
    /\ username_password = read_users_file(DefaultUserFile).dict
    /\ task_list = <<>>
    /\ curr_user = ""
    /\ curr_pass = ""
    /\ edit_specific_task = ""
    /\ user_option = ""
    /\ my_task_list = <<>>
    /\ field_to_edit = ""
    /\ new_completed = ""
    /\ out = <<>>
    /\ screen = <<>>
    /\ reports = <<>>
    /\ arg = <<>>
    /\ res = <<>>

\* an exception nobody catches ends the program; the files stay as they are
Raise(exc) ==
    /\ pc' = "crashed"
    /\ out' = <<exc>>
    /\ Forget
    /\ UNCHANGED <<now, files, memory, probe>>

\* the program is started again after it ended: main, up to the login prompt
Start ==
    /\ pc \in {"done", "crashed"}
    /\ user_option' = ""
    /\ LET users == read_users_file(user_file)
           tasks == create_task_list(read_tasks_file(tasks_file))
       IN  IF users.err # "" THEN Raise(users.err)
           ELSE IF tasks.err # "" THEN Raise(tasks.err)
           ELSE /\ pc' = "login"
                /\ username_password' = users.dict
                /\ task_list' = tasks.list
                /\ curr_user' = ""
                /\ curr_pass' = ""
                /\ edit_specific_task' = ""
                /\ out' = <<>>
                /\ Forget
                /\ UNCHANGED <<now, files, probe>>

\* (as initial_loggin, but the password is not compared)
initial_loggin_by_name(user, password, dict) == user \in Keys(dict)

\* initial_loggin
initial_loggin(user, password, dict) ==
    user \in Keys(dict) /\ Get(dict, user) = password

\* main: the login prompt
Login ==
    /\ pc = "login"
    /\ UNCHANGED user_option
    /\ LET users == read_users_file(user_file)
       IN  IF users.err # "" THEN Raise(users.err)
           ELSE \E user \in Names, password \in Passwords :
                /\ curr_user' = user
                /\ curr_pass' = password
                /\ IF initial_loggin(user, password, users.dict)
                   THEN pc' = "top" /\ out' = <<"Successful login!">>
                   ELSE pc' = "done" /\ out' = <<"Verify your data and try again.">>
                /\ Forget
                /\ UNCHANGED <<now, files, username_password, task_list,
                               edit_specific_task, probe>>

\* main, the top of the menu loop: the menu is printed unless the last task
\* selection was "-1", and the next option is asked for
Prompt ==
    /\ pc = "top"
    /\ pc' = "menu"
    /\ out' = IF edit_specific_task # "-1" THEN <<"MENU">> ELSE <<>>
    /\ user_option' = ""
    /\ Forget
    /\ UNCHANGED <<now, files, memory, probe>>

\* main: the option read at the menu prompt
Command(entry) ==
    /\ pc = "menu"
    /\ user_option' = lower(entry)

\* main, option r: registration_user_option, the operator typing one of the
\* names and one of the passwords given
RegisterFrom(names, new_passwords) ==
    /\ Command("r")
    /\ \E entry \in names, new_password \in new_passwords, confirm_password \in Passwords :
       \E again \in Reprompt(entry \notin Keys(username_password), entry,
                            names \ Keys(username_password)) :
           LET new_user == IF entry \in Keys(username_password) THEN again ELSE entry
           IN  IF new_password = confirm_password
               THEN /\ username_password' = Put(username_password, new_user, new_password)
                    /\ user_file' = add_new_user_to_user_file(username_password')
                    /\ out' = <<"New user added successfully!">>
               ELSE /\ out' = <<>>
                    /\ UNCHANGED <<username_password, user_file>>
    /\ pc' = "top"
    /\ Forget
    /\ UNCHANGED <<now, tasks_file, task_list, curr_user, curr_pass,
                   edit_specific_task, probe>>

Register == RegisterFrom(Names, NewPasswords)

\* main, option r, with the names an operator may type for a new user: a
\* name with a blank in front is a name like any other to the prompts
TypedNames == Names \cup {" bob"}

RegisterTyped == RegisterFrom(TypedNames, Passwords)

\* main, option a: add_new_task_to_task_list and write_new_task_to_tasks_file
AddTask ==
    /\ Command("a")
    /\ Len(task_list) < MaxTasks
    /\ \E due_entry \in DateInputs :
       \E due_again \in Reprompt(strptime(due_entry) # NoDate, due_entry, ValidDateInputs) :
       \E task_due_date \in {validate_due_date_input(due_entry, due_again)} :
       \E entry \in Names, title \in Titles, description \in Descriptions :
       \E again \in Reprompt(entry \in Keys(username_password), entry,
                            Keys(username_password)) :
           LET validated_username ==
                   validate_if_username_registered(entry, again, username_password)
           IN  /\ task_list' = add_new_task_to_task_list(task_list, validated_username,
                                   title, description, task_due_date, today(now))
               /\ tasks_file' = write_new_task_to_tasks_file(task_list')
    /\ out' = <<"Task successfully added">>
    /\ pc' = "top"
    /\ Forget
    /\ UNCHANGED <<now, user_file, username_password, curr_user, curr_pass,
                   edit_specific_task,
                   probe>>

\* main, option va: the list is loaded again and shown
ViewAll ==
    /\ Command("va")
    /\ LET tasks == create_task_list(read_tasks_file(tasks_file))
       IN  IF tasks.err # "" THEN Raise(tasks.err)
           ELSE /\ task_list' = tasks.list
                /\ out' = IF Len(tasks.list) = 0 THEN <<"No tasks available.">>
                          ELSE <<"All Tasks:">>
                /\ pc' = "top"
                /\ Forget
                /\ UNCHANGED <<now, files, username_password, curr_user, curr_pass,
                               edit_specific_task, probe>>

\* edit_task_details, once the task is found and the edit menu was shown:
\* the task is changed in the list and update_tasks_file rewrites its line
Edited(list, k, task, shown, message) ==
    /\ my_task_list' = [list EXCEPT ![k] = task]
    /\ tasks_file' = update_tasks_file(task, tasks_file)
    /\ out' = shown \o <<message>>
    /\ pc' = "top"

NotEdited(list, shown, message) ==
    /\ my_task_list' = list
    /\ out' = shown \o message
    /\ pc' = "top"
    /\ UNCHANGED tasks_file

\* edit_task_details, option u
EditUsername(list, k, shown) ==
    LET users == read_users_file(user_file)
    IN  IF users.err # ""
        THEN /\ pc' = "crashed"
             /\ my_task_list' = list
             /\ out' = <<users.err>>
             /\ new_completed' = ""
             /\ UNCHANGED tasks_file
        ELSE \E entry \in Names :
             \E again \in Reprompt(entry \in Keys(users.dict), entry, Keys(users.dict)) :
                 LET new_username == validate_data_entry(entry, entry)
                     checked == validate_if_username_registered(new_username, again,
                                                                users.dict)
                 IN  /\ checked \in Keys(users.dict)
                     /\ Edited(list, k, [list[k] EXCEPT !.username = new_username],
                               shown, "Username successfully updated.")
                     /\ new_completed' = ""

\* edit_task_details, option d
EditDueDate(list, k, shown) ==
    \E due_entry \in DateInputs :
    \E due_again \in Reprompt(strptime(due_entry) # NoDate, due_entry, ValidDateInputs) :
        /\ Edited(list, k,
                  [list[k] EXCEPT !.due_date = validate_due_date_input(due_entry, due_again)],
                  shown, "Due date successfully updated.")
        /\ new_completed' = ""

\* edit_task_details, option c
EditCompleted(list, k, shown) ==
    \E entry \in Confirmations \cup {""} :
    \E again \in Reprompt(entry # "", entry, Confirmations) :
        /\ new_completed' = validate_data_entry(lower(entry), again)
        /\ IF new_completed' = "yes"
           THEN Edited(list, k, [list[k] EXCEPT !.completed = TRUE], shown,
                       "Complete status successfully updated.")
           ELSE NotEdited(list, shown, <<"No change made.">>)

\* edit_task_details
edit_task_details(list, selector, printed) ==
    LET number == int(selector)
        found == {k \in 1..Len(list) : number.ok /\ list[k].task_number = number.v}
    IN  IF found = {}
        THEN /\ NotEdited(list, printed, <<"Invalid task number.">>)
             /\ NoPrompt
        ELSE \E k \in found :
             IF Editable(list[k], today(now))
             THEN \E option \in EditOptions :
                  LET shown == printed \o <<"Task details:", "EDIT MENU">>
                  IN  /\ field_to_edit' = lower(option)
                      /\ CASE field_to_edit' = "u" -> EditUsername(list, k, shown)
                           [] field_to_edit' = "d" -> EditDueDate(list, k, shown)
                           [] field_to_edit' = "c" -> EditCompleted(list, k, shown)
                           [] field_to_edit' = "e" ->
                                NotEdited(list, shown, <<>>) /\ new_completed' = ""
                           [] OTHER ->
                                NotEdited(list, shown, <<"Invalid option.">>)
                                /\ new_completed' = ""
             ELSE /\ NotEdited(list, printed \o <<"Task details:">>,
                               <<"Task completed or overdue, can't be edited.">>)
                  /\ NoPrompt

\* main, option vm: view_my_tasks_option, then the task selection
ViewMine ==
    /\ Command("VM")
    /\ \E view \in {view_my_tasks_option(curr_user, tasks_file)} :
       IF view.err # "" THEN Raise(view.err)
       ELSE /\ \E entry \in Selectors :
                  LET printed == IF Len(view.list) = 0
                                 THEN <<"No tasks assigned to you.">>
                                 ELSE <<"Your tasks:">>
                  IN  /\ edit_specific_task' = validate_data_entry(entry, entry)
                      /\ IF edit_specific_task' = "-1"
                         THEN /\ NotEdited(view.list, printed, <<"MENU">>)
                              /\ NoPrompt
                         ELSE edit_task_details(view.list, edit_specific_task', printed)
            /\ NoStats
            /\ UNCHANGED <<now, user_file, username_password, task_list, curr_user,
                           curr_pass, probe>>

\* (as GenerateReports, but whoever is logged in)
GenerateReportsOfAnyone ==
    /\ Command("gr")
    /\ LET report == generate_reports_option(user_file, tasks_file, now)
       IN  IF report.err # "" THEN Raise(report.err)
           ELSE /\ reports' = report.figures
                /\ screen' = <<>>
                /\ out' = <<"Reports task_overview.txt & user_overview.txt successfully generated!">>
                /\ pc' = "top"
                /\ my_task_list' = <<>>
                /\ NoPrompt
                /\ UNCHANGED <<now, files, memory, probe>>

\* main, option gr of admin: generate_reports_option
GenerateReports ==
    /\ Command("gr")
    /\ curr_user = "admin"
    /\ LET report == generate_reports_option(user_file, tasks_file, now)
       IN  IF report.err # "" THEN Raise(report.err)
           ELSE /\ reports' = report.figures
                /\ screen' = <<>>
                /\ out' = <<"Reports task_overview.txt & user_overview.txt successfully generated!">>
                /\ pc' = "top"
                /\ my_task_list' = <<>>
                /\ NoPrompt
                /\ UNCHANGED <<now, files, memory, probe>>

\* main, option ds of admin: display_stats_option
DisplayStats ==
    /\ Command("ds")
    /\ curr_user = "admin"
    /\ LET stats == display_stats_option(user_file, tasks_file, now)
       IN  IF stats.err # "" THEN Raise(stats.err)
           ELSE /\ screen' = stats.figures
                /\ reports' = <<>>
                /\ out' = <<"Task Overview", "User Statistics:">>
                /\ pc' = "top"
                /\ my_task_list' = <<>>
                /\ NoPrompt
                /\ UNCHANGED <<now, files, memory, probe>>

\* main, option e
Exit ==
    /\ Command("e")
    /\ pc' = "done"
    /\ out' = <<"Goodbye!!!">>
    /\ Forget
    /\ UNCHANGED <<now, files, memory, probe>>

\* main, the last branch: anything that is not an option of this user
Unknown ==
    /\ \E entry \in Commands : Command(entry)
    /\ user_option' \notin {"r", "a", "va", "vm", "e"}
    /\ ~(user_option' \in {"gr", "ds"} /\ curr_user = "admin")
    /\ pc' = "top"
    /\ out' = <<"Invalid option.">>
    /\ Forget
    /\ UNCHANGED <<now, files, memory, probe>>

\* the system clock moves on to the next day
Tick ==
    /\ now < MaxDay
    /\ now' = now + 1
    /\ UNCHANGED <<pc, files, memory, user_option, my_task_list, field_to_edit,
                   new_completed, out, screen, reports, probe>>

Next ==
    \/ Start
    \/ Login
    \/ Prompt
    \/ Register
    \/ AddTask
    \/ ViewAll
    \/ ViewMine
    \/ GenerateReports
    \/ DisplayStats
    \/ Exit
    \/ Unknown
    \/ Tick

Spec == Init /\ [][Next]_vars

\* ------------------------------------------- the credential store on its own
\* The session with the options that touch user.txt: login, register (with
\* the names of TypedNames), exit and the start of the program.
CredNext ==
    \/ Start
    \/ Login
    \/ Prompt
    \/ RegisterTyped
    \/ Exit

CredSpec == Init /\ [][CredNext]_vars

\* ------------------------------------------- the statistics on their own
\* The credential stores and the task stores the statistics are run on: what
\* register leaves in user.txt, and what add and edit leave in tasks.txt (a
\* task may be assigned to a name that is not in user.txt, see EditUsername).
UserFiles == {DefaultUserFile, <<"admin;password", "bob;pw">>}

StoredTasks ==
    [username : Names, title : Titles, description : Descriptions,
     due_date : {today(n) : n \in 1..MaxDay}, assigned_date : {today(1)},
     completed : BOOLEAN]

TaskLists(longest, tasks) == UNION {[1..n -> tasks] : n \in 0..longest}

\* admin is logged in and at the menu prompt
StatsInit ==
    /\ pc = "menu"
    /\ now \in 1..MaxDay
    /\ user_file \in UserFiles
    /\ \E list \in TaskLists(MaxStored, StoredTasks) :
           tasks_file = write_new_task_to_tasks_file(list)
    /\ username_password = read_users_file(user_file).dict
    /\ task_list = create_task_list(read_tasks_file(tasks_file)).list
    /\ curr_user = "admin"
    /\ curr_pass = "password"
    /\ edit_specific_task = ""
    /\ user_option = ""
    /\ my_task_list = <<>>
    /\ field_to_edit = ""
    /\ new_completed = ""
    /\ out = <<"MENU">>
    /\ screen = <<>>
    /\ reports = <<>>
    /\ arg = <<>>
    /\ res = <<>>

StatsNext ==
    \/ GenerateReports
    \/ DisplayStats
    \/ Prompt

StatsSpec == StatsInit /\ [][StatsNext]_vars

\* ------------------------------------------- the percentage on its own
\* arg is <<count, total>>, a count of tasks out of a total
PctInit ==
    /\ pc = "call"
    /\ \E total \in 0..MaxCount : \E count \in 0..total : arg = <<count, total>>
    /\ res = <<>>
    /\ now = 1
    /\ user_file = DefaultUserFile
    /\ tasks_file = <<>>
    /\ username_password = read_users_file(DefaultUserFile).dict
    /\ task_list = <<>>
    /\ curr_user = "admin"
    /\ curr_pass = "password"
    /\ edit_specific_task = ""
    /\ user_option = ""
    /\ my_task_list = <<>>
    /\ field_to_edit = ""
    /\ new_completed = ""
    /\ out = <<>>
    /\ screen = <<>>
    /\ reports = <<>>

\* the percentage of arg is computed: res is <<percentage>>
Percentage ==
    /\ pc = "call"
    /\ pc' = "return"
    /\ res' = <<percentage(arg[1], arg[2])>>
    /\ UNCHANGED <<now, files, memory, user_option, my_task_list, field_to_edit,
                   new_completed, out, screen, reports, arg>>

PctNext == Percentage

PctSpec == PctInit /\ [][PctNext]_vars

\* ------------------------------------- writing and reloading on their own
\* The task lists main can hold: the tasks are numbered from 1 in the order
\* of the list, title and description are whatever validate_data_entry let
\* through (any text that is not empty), the dates are valid dates.
EnteredTitles == Titles \cup {"t;x"}

EnteredTasks ==
    [username : Names, title : EnteredTitles, description : Descriptions,
     due_date : {today(n) : n \in 1..MaxDay}, assigned_date : {today(1)},
     completed : BOOLEAN]

Numbered(list) ==
    [i \in 1..Len(list) |->
        [number |-> i,
         username |-> list[i].username,
         title |-> list[i].title,
         description |-> list[i].description,
         due_date |-> list[i].due_date,
         assigned_date |-> list[i].assigned_date,
         completed |-> list[i].completed]]

BuiltLists == {Numbered(list) : list \in TaskLists(MaxTasks, EnteredTasks)}

\* arg is the list in memory
RoundTripInit ==
    /\ pc = "call"
    /\ arg \in BuiltLists
    /\ res = <<>>
    /\ now = 1
    /\ user_file = <<"admin;password", "bob;pw">>
    /\ tasks_file = <<>>
    /\ username_password = read_users_file(user_file).dict
    /\ task_list = arg
    /\ curr_user = "admin"
    /\ curr_pass = "password"
    /\ edit_specific_task = ""
    /\ user_option = ""
    /\ my_task_list = <<>>
    /\ field_to_edit = ""
    /\ new_completed = ""
    /\ out = <<>>
    /\ screen = <<>>
    /\ reports = <<>>

\* write_new_task_to_tasks_file(task_list)
Write ==
    /\ pc = "call"
    /\ pc' = "written"
    /\ tasks_file' = write_new_task_to_tasks_file(arg)
    /\ UNCHANGED <<now, user_file, memory, user_option, my_task_list, field_to_edit,
                   new_completed, out, screen, reports, probe>>

\* create_task_list(read_tasks_file()): res is [err, list]
Reload ==
    /\ pc = "written"
    /\ pc' = "return"
    /\ res' = create_task_list(read_tasks_file(tasks_file))
    /\ UNCHANGED <<now, files, memory, user_option, my_task_list, field_to_edit,
                   new_completed, out, screen, reports, arg>>

RoundTripNext ==
    \/ Write
    \/ Reload

RoundTripSpec == RoundTripInit /\ [][RoundTripNext]_vars

\* ================================================================ claims
\* the records of tasks.txt as the program reads them
Stored(file) == create_task_list(read_tasks_file(file)).list

\* the users of user.txt as the program reads them
Registered(file) == Keys(read_users_file(file).dict)

\* section 4.4: a task is Locked when it is completed or its due date is not
\* after the current time, and Open otherwise
Locked(task, day) == task.completed \/ DateLE(task.due_date, today(day))
Open(task, day) == ~Locked(task, day)

Last(seq) == IF Len(seq) = 0 THEN "" ELSE seq[Len(seq)]
Printed(message) == \E i \in 1..Len(out) : out[i] = message

\* a pass of the menu loop that handled option vm and handed the selector
\* to edit_task_details (the step, and the state it leaves)
ViewMineStep == pc = "menu" /\ pc' = "top" /\ user_option' = "vm"
AfterEdit == pc = "top" /\ user_option = "vm" /\ edit_specific_task # "-1"

\* the tasks of the list shown that the selector picks
Picked(list, selector) ==
    {k \in 1..Len(list) : int(selector).ok /\ list[k].task_number = int(selector).v}

\* C1: a selected task that is Locked (completed, whatever its due date, or
\* due at or before the current time) is refused with the "completed or
\* overdue" message before the edit menu is offered and tasks.txt is left as
\* it was; tasks.txt is changed by an edit only when the selected task was
\* Open.
C1_LockedRefused ==
    [][ViewMineStep =>
        LET shown == view_my_tasks_option(curr_user, tasks_file).list
            picked == Picked(shown, edit_specific_task')
        IN  /\ \A k \in picked :
                   Locked(shown[k], now) =>
                       /\ Last(out') = "Task completed or overdue, can't be edited."
                       /\ \A i \in 1..Len(out') : out'[i] # "EDIT MENU"
                       /\ field_to_edit' = ""
                       /\ tasks_file' = tasks_file
                       /\ my_task_list' = shown
            /\ tasks_file' # tasks_file =>
                   \E k \in picked : Open(shown[k], now)]_vars

\* C1 witness: a completed task whose due date is still ahead was selected
\* and refused
C1_Witness ==
    /\ AfterEdit
    /\ Last(out) = "Task completed or overdue, can't be edited."
    /\ \E k \in Picked(my_task_list, edit_specific_task) :
           my_task_list[k].completed /\ DateLT(today(now), my_task_list[k].due_date)

\* C2 (as claimed): a stored task that is Locked stays Locked whatever the
\* session does next, the clock only moving forward; in particular its
\* stored completed flag does not go from Yes back to No.
C2_LockedForever ==
    [][(tasks_file' # tasks_file \/ now' # now) =>
        \A i \in 1..Len(Stored(tasks_file)) :
            Locked(Stored(tasks_file)[i], now) =>
                /\ i <= Len(Stored(tasks_file'))
                /\ Locked(Stored(tasks_file')[i], now')]_vars

\* C3 (as claimed): every task in memory and in tasks.txt is assigned to a
\* user of the credential store.
C3_AssigneeRegistered ==
    /\ \A i \in 1..Len(task_list) : task_list[i].username \in Registered(user_file)
    /\ \A i \in 1..Len(my_task_list) : my_task_list[i].username \in Registered(user_file)
    /\ \A i \in 1..Len(Stored(tasks_file)) :
           Stored(tasks_file)[i].username \in Registered(user_file)

\* a pass that showed the list of the user and left it as it was shown
ListShown ==
    /\ pc = "top"
    /\ user_option = "vm"
    /\ field_to_edit \notin {"u", "d", "c"}

\* the list holds exactly the stored tasks of the user, in storage order
ExactlyMine(list, stored, user) ==
    /\ Len(list) = Cardinality({i \in 1..Len(stored) : stored[i].username = user})
    /\ \A k \in 1..Len(list) :
           /\ list[k].number \in 1..Len(stored)
           /\ stored[list[k].number].username = user
           /\ stored[list[k].number] =
                  [number |-> list[k].number,
                   username |-> list[k].username,
                   title |-> list[k].title,
                   description |-> list[k].description,
                   due_date |-> list[k].due_date,
                   assigned_date |-> list[k].assigned_date,
                   completed |-> list[k].completed]
    /\ \A k, l \in 1..Len(list) : k < l => list[k].number < list[l].number

C5_OnlyOwnTasks ==
    [][ViewMineStep =>
        LET before == Stored(tasks_file)
            after == IF tasks_file' = tasks_file THEN before ELSE Stored(tasks_file')
            shown == MyTasksFrom(before, curr_user, 1)
            number == int(edit_specific_task')
        IN  /\ Len(after) = Len(before)
            /\ \A i \in 1..Len(before) :
                   after[i] # before[i] => before[i].username = curr_user
            /\ ( /\ edit_specific_task' # "-1"
                 /\ \/ ~number.ok
                    \/ ~\E i \in 1..Len(before) :
                           before[i].username = curr_user /\ i = number.v )
               => /\ Last(out') = "Invalid task number."
                  /\ tasks_file' = tasks_file
                  /\ my_task_list' = shown]_vars

\* C5 witness: the number of a task of another user was entered and refused
C5_Witness ==
    /\ AfterEdit
    /\ Last(out) = "Invalid task number."
    /\ int(edit_specific_task).ok
    /\ int(edit_specific_task).v \in 1..Len(Stored(tasks_file))
    /\ Stored(tasks_file)[int(edit_specific_task).v].username # curr_user

\* C6 (as claimed): with option c on an Open task, the task is marked
\* completed if and only if the confirmation finally supplied is "yes" in
\* any letter case, at the first prompt or at the re-prompt; otherwise
\* nothing changes and "No change made." is printed.
C6_CaseInsensitiveYes ==
    (AfterEdit /\ field_to_edit = "c") =>
        IF lower(new_completed) = "yes"
        THEN /\ Last(out) = "Complete status successfully updated."
             /\ \A k \in Picked(my_task_list, edit_specific_task) :
                    my_task_list[k].completed
        ELSE Last(out) = "No change made."

\* the figures the pass printed or wrote, and a pass of admin with option ds
\* or gr that ended without an exception
Figures == screen \o reports
StatsShown == pc = "top" /\ user_option = "ds" /\ Len(screen) = 1
ReportsWritten == pc = "top" /\ user_option = "gr" /\ Len(reports) = 1

\* the stored tasks, and those of one user
AllTasks(stored) == 1..Len(stored)
TasksOf(stored, user) == {k \in 1..Len(stored) : stored[k].username = user}

\* section 7: a task is overdue when it is uncompleted and its due date is
\* at or before the current time
Overdue(task, day) == ~task.completed /\ DateLE(task.due_date, today(day))

\* C7: in the figures of ds and of gr, globally and for every user, the
\* completed and the uncompleted tasks add up to the total (to the tasks
\* assigned to the user), the overdue tasks are no more than the uncompleted
\* ones, and the tasks counted as overdue are exactly the uncompleted tasks
\* whose due date is at or before the current time.
C7_CountsAddUp ==
    \A n \in 1..Len(Figures) :
        LET f == Figures[n]
            stored == Stored(tasks_file)
        IN  /\ f.total_tasks = Len(stored)
            /\ f.total_tasks_completed + f.total_tasks_uncompleted = f.total_tasks
            /\ f.total_tasks_uncompleted_overdue <= f.total_tasks_uncompleted
            /\ f.total_tasks_completed =
                   Cardinality({k \in AllTasks(stored) : stored[k].completed})
            /\ f.total_tasks_uncompleted_overdue =
                   Cardinality({k \in AllTasks(stored) : Overdue(stored[k], now)})
            /\ \A u \in 1..Len(f.users) :
                   LET mine == TasksOf(stored, f.users[u].username)
                   IN  /\ f.users[u].total_assigned = Cardinality(mine)
                       /\ f.users[u].total_completed + f.users[u].total_uncompleted =
                              f.users[u].total_assigned
                       /\ f.users[u].total_uncompleted_overdue <=
                              f.users[u].total_uncompleted
                       /\ f.users[u].total_completed =
                              Cardinality({k \in mine : stored[k].completed})
                       /\ f.users[u].total_uncompleted_overdue =
                              Cardinality({k \in mine : Overdue(stored[k], now)})

\* C7 witness: ds showed a user with a completed task, a task that is due on
\* the current day and a task that is due later
C7_Witness ==
    /\ StatsShown
    /\ \E u \in 1..Len(screen[1].users) :
           /\ screen[1].users[u].total_completed = 1
           /\ screen[1].users[u].total_uncompleted = 2
           /\ screen[1].users[u].total_uncompleted_overdue = 1
    /\ \E k \in AllTasks(Stored(tasks_file)) :
           /\ ~Stored(tasks_file)[k].completed
           /\ Stored(tasks_file)[k].due_date = today(now)

\* C8 (as claimed): the percentage of count out of total is the whole part
\* of 100 * count / total, and 0 when total is 0.
C8_WholePartOfExactQuotient ==
    pc = "return" =>
        res = <<IF arg[2] > 0 THEN (100 * arg[1]) \div arg[2] ELSE 0>>

\* C9: whatever user.txt, tasks.txt and the clock hold, option ds prints the
\* figures (every count and every percentage, for the same users in the
\* same order) that option gr would write, option gr writes the figures
\* that option ds would print, one ends with an exception exactly when the
\* other would, and neither changes user.txt or tasks.txt.
C9_SameFigures ==
    [][(pc = "menu" /\ curr_user = "admin" /\ user_option' \in {"ds", "gr"}) =>
        LET report == generate_reports_option(user_file, tasks_file, now)
            stats == display_stats_option(user_file, tasks_file, now)
        IN  /\ user_option' = "ds" =>
                   IF report.err # ""
                   THEN pc' = "crashed" /\ out' = <<report.err>> /\ screen' = <<>>
                   ELSE pc' = "top" /\ screen' = report.figures
            /\ user_option' = "gr" =>
                   IF stats.err # ""
                   THEN pc' = "crashed" /\ out' = <<stats.err>> /\ reports' = <<>>
                   ELSE pc' = "top" /\ reports' = stats.figures
            /\ UNCHANGED files]_vars

\* C9 witness: gr wrote the figures of two users, one with a task that is
\* due on the current day, the other with a completed task
C9_Witness ==
    /\ ReportsWritten
    /\ reports[1].total_users = 2
    /\ reports[1].total_tasks = 3
    /\ reports[1].total_tasks_uncompleted_overdue = 1
    /\ reports[1].users[2].total_completed = 1
    /\ \E k \in AllTasks(Stored(tasks_file)) :
           /\ ~Stored(tasks_file)[k].completed
           /\ Stored(tasks_file)[k].due_date = today(now)

\* C10 (as claimed): a list the program can hold, written and loaded again,
\* comes back without an exception as the same records in the same order,
\* numbered from 1.
C10_RoundTrip ==
    pc = "return" => res = [err |-> "", list |-> arg]

\* the name a line of user.txt gives to read_users_file
NameOfLine(line) == split(strip(line), ";")[1]

\* C11 (as claimed): whatever is registered, the names in user.txt stay
\* unique, every user of user.txt is still there afterwards with the same
\* password, and user.txt, read back, is the mapping in memory.
C11_CredentialsStable ==
    [][(pc = "menu" /\ user_option' = "r") =>
        LET before == read_users_file(user_file).dict
            after == read_users_file(user_file')
        IN  /\ after.err = ""
            /\ \A i, j \in 1..Len(user_file') :
                   i # j => NameOfLine(user_file'[i]) # NameOfLine(user_file'[j])
            /\ \A i \in 1..Len(before) :
                   /\ before[i].k \in Keys(after.dict)
                   /\ Get(after.dict, before[i].k) = before[i].v
            /\ after.dict = username_password']_vars

\* in the session: the login succeeded and main is in the menu loop
InSession(at) == at \in {"top", "menu"}

\* C12: the login prompt lets the operator into the menu loop exactly when
\* the name entered is a user of user.txt and the password entered is the
\* password stored for it; otherwise main returns and both files are as
\* they were.  The menu loop is entered in no other way, and no option is
\* handled and no file is changed outside it.
C12_LoginGate ==
    [][LET users == read_users_file(user_file).dict
           known == curr_user' \in Keys(users)
           right == known /\ Get(users, curr_user') = curr_pass'
       IN  /\ (pc = "login" /\ pc' # "login") =>
                  /\ pc' = IF right THEN "top" ELSE "done"
                  /\ UNCHANGED files
           /\ (InSession(pc') /\ ~InSession(pc)) => (pc = "login" /\ right)
           /\ (files' # files \/ user_option' \notin {"", user_option}) => pc = "menu"]_vars

\* C12 witness: a registered user gave a wrong password and main returned
C12_Witness ==
    /\ pc = "done"
    /\ Last(out) = "Verify your data and try again."
    /\ curr_user = "bob"
    /\ curr_user \in Registered(user_file)
    /\ Len(tasks_file) > 0

\* C13: option gr or ds entered by admin runs the function (figures are
\* written or printed, or the function ends with an exception); entered by
\* anyone else it is answered with "Invalid option." like an unknown option,
\* nothing is printed or written as figures and both files are as they were.
C13_AdminOnly ==
    [][/\ (pc = "menu" /\ user_option' \in {"gr", "ds"}) =>
              IF curr_user = "admin"
              THEN \/ pc' = "crashed"
                   \/ pc' = "top" /\ user_option' = "gr" /\ Len(reports') = 1
                   \/ pc' = "top" /\ user_option' = "ds" /\ Len(screen') = 1
              ELSE /\ pc' = "top"
                   /\ out' = <<"Invalid option.">>
                   /\ screen' = <<>>
                   /\ reports' = <<>>
                   /\ UNCHANGED files
       /\ (Len(screen') = 1 \/ Len(reports') = 1) => curr_user' = "admin"]_vars

\* C13 witness: bob entered gr and got the answer to an unknown option
C13_Witness ==
    /\ pc = "top"
    /\ curr_user = "bob"
    /\ user_option = "gr"
    /\ out = <<"Invalid option.">>
    /\ Len(tasks_file) > 0

\* C14 (as claimed): an option that is none of the options of the user is
\* answered with "Invalid option.", and the menu is printed again before
\* the next option is read, whatever was entered before.
C14_MenuRedisplayed ==
    [][/\ (pc = "menu" /\ pc' = "top" /\ user_option' \notin {"r", "a", "va", "vm", "e"}
             /\ ~(user_option' \in {"gr", "ds"} /\ curr_user = "admin")) =>
              out' = <<"Invalid option.">>
       /\ (pc = "top" /\ out = <<"Invalid option.">> /\ pc' = "menu") =>
              out' = <<"MENU">>]_vars

\* the messages of the three edits, and the field of the line each one sets
Updated ==
    {"Username successfully updated.", "Due date successfully updated.",
     "Complete status successfully updated."}

FieldOf(option) == CASE option = "u" -> 2 [] option = "d" -> 5 [] option = "c" -> 7

SameRecord(a, b) ==
    /\ a.username = b.username
    /\ a.title = b.title
    /\ a.description = b.description
    /\ a.due_date = b.due_date
    /\ a.assigned_date = b.assigned_date
    /\ a.completed = b.completed

\* C16: option a leaves tasks.txt with one record more than it had just
\* before; the new record is the last one, it is not completed and its line
\* carries the new length as its number; every record stored before keeps
\* its username, title, description, due date, assigned date and completed
\* flag.
C16_AddTaskFrame ==
    [][(pc = "menu" /\ pc' = "top" /\ user_option' = "a") =>
        \E before \in {Stored(tasks_file)}, after \in {Stored(tasks_file')} :
            /\ Len(after) = Len(before) + 1
            /\ Len(tasks_file') = Len(after)
            /\ ~after[Len(after)].completed
            /\ FirstField(tasks_file'[Len(tasks_file')]) = str(Len(after))
            /\ \A k \in 1..Len(before) : SameRecord(after[k], before[k])]_vars

\* C17: gr and ds of admin never end with an exception: every task of
\* tasks.txt names a user of user.txt, the command comes back to the menu,
\* and its figures have one row for every registered user.
C17_StatisticsNeverFault ==
    [][(pc = "menu" /\ user_option' \in {"gr", "ds"} /\ curr_user = "admin") =>
        \E stored \in {Stored(tasks_file)}, users \in {Registered(user_file)} :
            /\ \A k \in 1..Len(stored) : stored[k].username \in users
            /\ pc' = "top"
            /\ Len(screen' \o reports') = 1
            /\ \E f \in {(screen' \o reports')[1]} :
                   {f.users[u].username : u \in 1..Len(f.users)} = users]_vars

====
